---- MODULE Spec2Model ----
(***************************************************************************)
(* The Swiggy restaurant dashboard (my-swiggy-dashboard/app.py) as a state *)
(* machine: the module-level load of the CSV file, the cleaning of the     *)
(* frame, the creation of the Dash app, and the two callbacks              *)
(* set_cities_options and update_graphs, each run to completion on one     *)
(* request.                                                                *)
(*                                                                         *)
(* Strings are sequences of one-character strings, so that splitting,      *)
(* stripping, substring tests, parsing and sorting are computed and not    *)
(* assumed.  A cell of a frame is a record [kind, s, n]: a string (kind    *)
(* "str", s), a number (kind "num", n) or NaN (kind "nan").  A frame is a  *)
(* record [columns, dtypes, rows]; a row carries its index label, which    *)
(* boolean masks and copies keep.                                          *)
(***************************************************************************)
EXTENDS Integers, Sequences, FiniteSets, TLC

VARIABLES
    pc,           \* where the process is: the module's statements, then the server loop
    file,         \* the file 'swiggy state .csv' as the process finds it
    reads,        \* how many times read_csv has been called
    stdout,       \* what the process has printed
    stderr,       \* the exception that ended the process, if one did
    df,           \* the module-level DataFrame
    all_cuisines, \* the module-level sorted list of cuisine tokens
    app,          \* the Dash app: created or not, with its layout's state options
    req,          \* the callback invocation being served
    filtered_df,  \* update_graphs' local frame when it returned or raised
    resp          \* what the callback returned, or the exception it raised

vars == <<pc, file, reads, stdout, stderr, df, all_cuisines, app, req, filtered_df, resp>>

----------------------------------------------------------------------------
(* Bounds of the model *)

\* the longest raw table drawn with every order and repetition of RawPool
MaxRows == 2
\* the widest table of the many-cities family
MaxCities == 12

----------------------------------------------------------------------------
(* Strings *)

\* the characters of the model in code point order, as Python compares them
Alphabet ==
    << " ", ",",
       "0", "1", "2", "3", "4", "5", "6", "7", "8", "9",
       "A", "B", "C", "D", "E", "F", "G", "H", "I", "J", "K", "L", "M", "N",
       "O", "P", "Q", "R", "S", "T",
       "a", "b", "c", "d", "e", "f", "g", "h", "i", "j", "k", "l", "m", "n",
       "o", "p", "q", "r", "s", "t", "x" >>

Ord(c) == CHOOSE i \in 1..Len(Alphabet) : Alphabet[i] = c

Digits == <<"0", "1", "2", "3", "4", "5", "6", "7", "8", "9">>

IsDigit(c) == \E i \in 1..10 : Digits[i] = c

DigitVal(c) == (CHOOSE i \in 1..10 : Digits[i] = c) - 1

Min(a, b) == IF a <= b THEN a ELSE b

\* Python's str < str: lexicographic by code point, a proper prefix first
RECURSIVE StrLess(_, _)
StrLess(a, b) ==
    IF b = <<>> THEN FALSE
    ELSE IF a = <<>> THEN TRUE
    ELSE IF Head(a) = Head(b) THEN StrLess(Tail(a), Tail(b))
    ELSE Ord(Head(a)) < Ord(Head(b))

\* t occurs in s starting at position i
MatchAt(s, t, i) ==
    /\ i + Len(t) - 1 <= Len(s)
    /\ \A k \in 1..Len(t) : s[i + k - 1] = t[k]

\* Python's `t in s` for strings
Contains(s, t) == \E i \in 1..(Len(s) + 1) : MatchAt(s, t, i)

\* Python's s.split(sep) for a non-empty sep: leftmost non-overlapping
\* occurrences, empty pieces kept
RECURSIVE SplitFrom(_, _, _, _)
SplitFrom(s, sep, i, cur) ==
    IF i > Len(s) THEN <<cur>>
    ELSE IF MatchAt(s, sep, i)
         THEN <<cur>> \o SplitFrom(s, sep, i + Len(sep), <<>>)
         ELSE SplitFrom(s, sep, i + 1, Append(cur, s[i]))

Split(s, sep) == SplitFrom(s, sep, 1, <<>>)

\* Python's s.strip(): leading and trailing whitespace removed
RECURSIVE LStrip(_)
LStrip(s) == IF s # <<>> /\ Head(s) = " " THEN LStrip(Tail(s)) ELSE s

RECURSIVE RStrip(_)
RStrip(s) ==
    IF s # <<>> /\ s[Len(s)] = " " THEN RStrip(SubSeq(s, 1, Len(s) - 1)) ELSE s

Strip(s) == RStrip(LStrip(s))

\* the separator of the 'Food type' column
Sep == <<",", " ">>

----------------------------------------------------------------------------
(* Cells *)

Str(s) == [kind |-> "str", s |-> s, n |-> 0]
Num(n) == [kind |-> "num", s |-> <<>>, n |-> n]
NaN == [kind |-> "nan", s |-> <<>>, n |-> 0]

IsNa(c) == c.kind = "nan"

\* the value of a numeral
RECURSIVE ParseDigits(_, _)
ParseDigits(s, acc) ==
    IF s = <<>> THEN acc ELSE ParseDigits(Tail(s), 10 * acc + DigitVal(Head(s)))

IsNumeral(s) == s # <<>> /\ \A i \in 1..Len(s) : IsDigit(s[i])

\* the strings read_csv reads as missing (of pandas' default list, the ones
\* over the model's alphabet)
NaValues == { <<>>, <<"N", "A">> }

\* ToNumeric with errors='ignore': what does not parse is left as it is
ToNumericIgnoreErrors(c) ==
    IF c.kind = "str" /\ IsNumeral(Strip(c.s)) THEN Num(ParseDigits(Strip(c.s), 0))
    ELSE c

\* pd.to_numeric(..., errors='coerce') on one cell
ToNumeric(c) ==
    IF c.kind = "num" THEN c
    ELSE IF c.kind = "str" /\ IsNumeral(Strip(c.s)) THEN Num(ParseDigits(Strip(c.s), 0))
    ELSE NaN

----------------------------------------------------------------------------
(* Frames *)

Columns == <<"Restaurant", "State", "City", "Price", "Avg ratings", "Food type">>

ColumnSet == { Columns[i] : i \in 1..Len(Columns) }

Range(s) == { s[i] : i \in 1..Len(s) }

\* the elements of s at the positions of the sequence idx
Pick(s, idx) == [k \in 1..Len(idx) |-> s[idx[k]]]

Indices(s) == [i \in 1..Len(s) |-> i]

\* read_csv infers a column's type from all of its fields: numbers when every
\* field that is not missing is a numeral
ColumnIsNumeric(raw, c) ==
    \A i \in 1..Len(raw) : raw[i][c] \in NaValues \/ IsNumeral(raw[i][c])

ReadField(raw, c, i) ==
    IF raw[i][c] \in NaValues THEN NaN
    ELSE IF ColumnIsNumeric(raw, c) THEN Num(ParseDigits(raw[i][c], 0))
    ELSE Str(raw[i][c])

\* pd.read_csv: a frame of the file's rows with the default index 0, 1, ...
ReadCsv(raw) ==
    [ columns |-> Columns,
      dtypes  |-> [c \in ColumnSet |->
                     IF ColumnIsNumeric(raw, c) THEN "float64" ELSE "object"],
      rows    |-> [i \in 1..Len(raw) |->
                     [index |-> i - 1,
                      cells |-> [c \in ColumnSet |-> ReadField(raw, c, i)]]] ]

\* df[c] = pd.to_numeric(df[c], errors='coerce')
CoerceColumn(frame, c) ==
    [ frame EXCEPT
        !.dtypes[c] = "float64",
        !.rows = [i \in 1..Len(frame.rows) |->
                    [frame.rows[i] EXCEPT !.cells[c] = ToNumeric(@)]] ]

\* df.dropna(subset=...): the rows with no missing value in the subset
DropNa(frame, subset) ==
    LET Keep(r) == \A c \in subset : ~IsNa(r.cells[c])
    IN  [frame EXCEPT !.rows = SelectSeq(frame.rows, Keep)]

\* frame[mask] for a boolean mask aligned with the frame's rows
MaskRows(rows, mask) == Pick(rows, SelectSeq(Indices(rows), LAMBDA i : mask[i]))

\* frame[[labels]]: the columns named, every row kept
TakeColumns(frame, labels) ==
    [ columns |-> SelectSeq(frame.columns, LAMBDA c : c \in labels),
      dtypes  |-> [c \in labels |-> frame.dtypes[c]],
      rows    |-> [i \in 1..Len(frame.rows) |->
                     [index |-> frame.rows[i].index,
                      cells |-> [c \in labels |-> frame.rows[i].cells[c]]]] ]

\* A Series: its dtype and its values.  Series.apply on an empty Series does
\* not call the function and returns an empty Series of the SAME dtype; on a
\* non-empty one the dtype is inferred from the results (here booleans).
Series(dtype, vals) == [dtype |-> dtype, vals |-> vals]

\* (results: what the function gives for each row, all booleans)
ApplyBool(frame, c, results) ==
    IF Len(frame.rows) = 0
    THEN Series(frame.dtypes[c], <<>>)
    ELSE Series("bool", results)

\* pandas.core.common.is_bool_indexer: a bool Series is one; an object Series
\* is one only when lib.is_bool_array says so, which is False for an empty array
IsBoolIndexer(key) ==
    \/ key.dtype = "bool"
    \/ /\ key.dtype = "object"
       /\ Len(key.vals) > 0
       /\ \A i \in 1..Len(key.vals) : key.vals[i] \in BOOLEAN

\* DataFrame.__getitem__ with a Series key: rows by a boolean indexer,
\* otherwise the key's values are column labels
GetItem(frame, key) ==
    IF IsBoolIndexer(key)
    THEN [frame EXCEPT !.rows = MaskRows(frame.rows, key.vals)]
    ELSE TakeColumns(frame, Range(key.vals))

HasColumn(frame, c) == \E i \in 1..Len(frame.columns) : frame.columns[i] = c

\* the values of a column, in row order
ColumnValues(frame, c) == [i \in 1..Len(frame.rows) |-> frame.rows[i].cells[c]]

\* the values of a column of strings
StringsOf(frame, c) == [i \in 1..Len(frame.rows) |-> frame.rows[i].cells[c].s]

----------------------------------------------------------------------------
(* Aggregations *)

\* how many entries nlargest keeps (lines 150 and 154)
TopN == 10

\* Series.unique(): the distinct values in order of first appearance
IsFirstOccurrence(s, i) == \A j \in 1..(i - 1) : s[j] # s[i]

Unique(s) == Pick(s, SelectSeq(Indices(s), LAMBDA i : IsFirstOccurrence(s, i)))

Count(s, v) == Cardinality({ i \in 1..Len(s) : s[i] = v })

\* the position in s of the element that a stable sort by Before puts at
\* place k: the one with k - 1 elements before it, an equal element counting
\* as before when it comes earlier in s
StrBefore(s, i, j) == StrLess(s[i], s[j]) \/ (~StrLess(s[j], s[i]) /\ i < j)

StrPlace(s, k) ==
    CHOOSE j \in 1..Len(s) :
        Cardinality({ i \in 1..Len(s) : StrBefore(s, i, j) }) = k - 1

\* Python's sorted() on a list of strings: ascending and stable
Sorted(s) == [k \in 1..Len(s) |-> s[StrPlace(s, k)]]

CountBefore(s, i, j) ==
    s[i].count > s[j].count \/ (s[i].count = s[j].count /\ i < j)

CountPlace(s, k) ==
    CHOOSE j \in 1..Len(s) :
        Cardinality({ i \in 1..Len(s) : CountBefore(s, i, j) }) = k - 1

\* a stable sort of entries by count, descending
SortByCountDesc(s) == [k \in 1..Len(s) |-> s[CountPlace(s, k)]]

\* Series.value_counts(): one entry per distinct value with its number of
\* occurrences, by count descending.  Values of equal count stay in order of
\* first appearance (the hash table keeps insertion order and the descending
\* sort is stable).
CountEach(s, u) == [i \in 1..Len(u) |-> [key |-> u[i], count |-> Count(s, u[i])]]

ValueCounts(s) == SortByCountDesc(CountEach(s, Unique(s)))

FirstN(s, n) == SubSeq(s, 1, Min(n, Len(s)))

\* NLargest keeping one entry too many
NLargestOneMore(vc, n) == FirstN(SortByCountDesc(vc), n + 1)

\* Series.nlargest(n) with keep='first': the n largest by value, descending,
\* earlier entries first among equals
NLargest(vc, n) == FirstN(SortByCountDesc(vc), n)

\* Series.str.split(', ').explode().str.strip() on string cells: every piece
\* of every value, stripped, in order
StripEach(pieces) == [i \in 1..Len(pieces) |-> Strip(pieces[i])]

RECURSIVE ExplodeStripFrom(_, _)
ExplodeStripFrom(cells, i) ==
    IF i > Len(cells) THEN <<>>
    ELSE StripEach(Split(cells[i].s, Sep)) \o ExplodeStripFrom(cells, i + 1)

\* ExplodeStrip without .str.strip()
RECURSIVE ExplodeFrom(_, _)
ExplodeFrom(cells, i) ==
    IF i > Len(cells) THEN <<>>
    ELSE Split(cells[i].s, Sep) \o ExplodeFrom(cells, i + 1)

ExplodeNoStrip(cells) == ExplodeFrom(cells, 1)

ExplodeStrip(cells) == ExplodeStripFrom(cells, 1)

----------------------------------------------------------------------------
(* The files the process may find *)

RawRow(name, state, city, price, rating, food) ==
    [c \in ColumnSet |->
        CASE c = "Restaurant"  -> name
          [] c = "State"       -> state
          [] c = "City"        -> city
          [] c = "Price"       -> price
          [] c = "Avg ratings" -> rating
          [] c = "Food type"   -> food]

MH == <<"M", "H">>
KA == <<"K", "A">>
Ta == <<"T", "a">>
Tb == <<"T", "b">>

\* Rows of a file: three valid ones, and one for each way a row is invalid
RawPool ==
    { RawRow(<<"P">>, MH, <<"B">>, <<"3", "0">>, <<"4">>, Ta \o Sep \o Tb),
      RawRow(<<"Q">>, MH, <<"A">>, <<"5", "0">>, <<"3">>, Tb \o <<",">> \o Ta),
      RawRow(<<"P">>, KA, <<"C">>, <<"1", "0">>, <<"5">>, Ta \o <<"b">> \o Sep \o <<" ">> \o Ta),
      RawRow(<<"R">>, MH, <<"B">>, <<"3", "x">>, <<"4">>, Ta),
      RawRow(<<"R">>, MH, <<"B">>, <<>>, <<"4">>, Ta),
      RawRow(<<"R">>, KA, <<"C">>, <<"3", "0">>, <<"x">>, Ta),
      RawRow(<<"R">>, KA, <<"C">>, <<"3", "0">>, <<"N", "A">>, Ta),
      RawRow(<<"R">>, <<>>, <<"A">>, <<"3", "0">>, <<"4">>, Tb),
      RawRow(<<"R">>, MH, <<>>, <<"3", "0">>, <<"4">>, Tb),
      RawRow(<<>>, MH, <<"A">>, <<"3", "0">>, <<"4">>, <<>>) }

\* every table of at most MaxRows rows of the pool, in every order
SmallTables == UNION { [1..n -> RawPool] : n \in 0..MaxRows }

Upper == <<"A", "B", "C", "D", "E", "F", "G", "H", "I", "J", "K", "L", "M", "N">>
Lower == <<"a", "b", "c", "d", "e", "f", "g", "h", "i", "j", "k", "l", "m", "n">>
Prices == << <<"1", "0">>, <<"3", "0">>, <<"5", "0">> >>

\* how many rows the i-th city of a wide table has
Mult(i) == IF i % 5 = 0 THEN 1 ELSE 2 + (i % 2)

\* the rows of round k of a wide table of n cities: one row for each city
\* that has at least k rows, the cities in descending order of their names,
\* each row listing the city's cuisine and the next city's
RECURSIVE WideRound(_, _, _)
WideRound(n, k, i) ==
    IF i > n THEN <<>>
    ELSE (IF Mult(i) >= k
          THEN << RawRow(<<"R">>, IF i % 2 = 0 THEN MH ELSE KA, <<Upper[n + 1 - i]>>,
                         Prices[k], <<"4">>,
                         <<"T", Lower[i]>> \o Sep \o <<"T", Lower[(i % n) + 1]>>) >>
          ELSE <<>>)
         \o WideRound(n, k, i + 1)

\* a table of n cities, city i on Mult(i) rows
WideTable(n) == WideRound(n, 1, 1) \o WideRound(n, 2, 1) \o WideRound(n, 3, 1)

WideTables == { WideTable(n) : n \in (TopN - 1)..MaxCities }

Files ==
    { [status |-> "missing", rows |-> <<>>],
      [status |-> "unreadable", rows |-> <<>>] }
    \cup { [status |-> "ok", rows |-> t] : t \in SmallTables \cup WideTables }

----------------------------------------------------------------------------
(* Startup: the module's top-level statements *)

\* a name that is not bound yet
NoFrame == [columns |-> <<>>, dtypes |-> <<>>, rows |-> <<>>]
NoReq == [fn |-> "none"]
NoResp == [status |-> "none"]

\* how many attempts to read the file the model follows
MaxReads == 2

Diagnostic == "Error: 'swiggy state .csv' not found. Make sure the file is in the same folder as app.py"

Init ==
    /\ pc = "read"
    /\ file \in Files
    /\ reads = 0
    /\ stdout = <<>>
    /\ stderr = <<>>
    /\ df = NoFrame
    /\ all_cuisines = <<>>
    /\ app = [created |-> FALSE, state_options |-> <<>>]
    /\ req = NoReq
    /\ filtered_df = NoFrame
    /\ resp = NoResp

\* LoadData trying again after a failure
LoadDataRetrying ==
    /\ pc = "read"
    /\ reads < MaxReads
    /\ reads' = reads + 1
    /\ IF file.status = "ok"
       THEN /\ df' = ReadCsv(file.rows)
            /\ pc' = "clean"
            /\ UNCHANGED stdout
       ELSE /\ stdout' = Append(stdout, Diagnostic)
            /\ pc' = "read"
            /\ UNCHANGED df
    /\ UNCHANGED <<file, stderr, all_cuisines, app, req, filtered_df, resp>>

\* lines 15-19: try: df = pd.read_csv(...) / except FileNotFoundError: print, exit()
\* Any other exception of read_csv is not caught and ends the process.
LoadData ==
    /\ pc = "read"
    /\ reads < MaxReads
    /\ reads' = reads + 1
    /\ CASE file.status = "ok" ->
              /\ df' = ReadCsv(file.rows)
              /\ pc' = "clean"
              /\ UNCHANGED <<stdout, stderr>>
         [] file.status = "missing" ->
              /\ stdout' = Append(stdout, Diagnostic)
              /\ pc' = "exited"
              /\ UNCHANGED <<df, stderr>>
         [] OTHER ->
              /\ stderr' = Append(stderr, "read_csv")
              /\ pc' = "crashed"
              /\ UNCHANGED <<df, stdout>>
    /\ UNCHANGED <<file, all_cuisines, app, req, filtered_df, resp>>

\* lines 22-24: to_numeric on both numeric columns, then dropna in place
CleanData ==
    /\ pc = "clean"
    /\ df' = DropNa(CoerceColumn(CoerceColumn(df, "Price"), "Avg ratings"),
                    {"Price", "Avg ratings", "State", "City", "Food type"})
    /\ pc' = "vocabulary"
    /\ UNCHANGED <<file, reads, stdout, stderr, all_cuisines, app, req, filtered_df, resp>>

\* line 27: sorted(df['Food type'].str.split(', ').explode().str.strip().unique())
\* The .str accessor raises AttributeError on a column that holds no strings.
BuildVocabulary ==
    /\ pc = "vocabulary"
    /\ IF df.dtypes["Food type"] = "object"
       THEN /\ all_cuisines' = Sorted(Unique(ExplodeStrip(ColumnValues(df, "Food type"))))
            /\ pc' = "layout"
            /\ UNCHANGED stderr
       ELSE /\ stderr' = Append(stderr, "AttributeError")
            /\ pc' = "crashed"
            /\ UNCHANGED all_cuisines
    /\ UNCHANGED <<file, reads, stdout, df, app, req, filtered_df, resp>>

\* lines 33-102: the app and its layout.  The slider's marks need
\* int(df['Price'].max()), which raises ValueError on NaN: the maximum of a
\* frame with no rows.
CreateApp ==
    /\ pc = "layout"
    /\ IF Len(df.rows) > 0
       THEN /\ app' = [created |-> TRUE,
                       state_options |-> Sorted(Unique(StringsOf(df, "State")))]
            /\ pc' = "serving"
            /\ UNCHANGED stderr
       ELSE /\ stderr' = Append(stderr, "ValueError")
            /\ pc' = "crashed"
            /\ UNCHANGED app
    /\ UNCHANGED <<file, reads, stdout, df, all_cuisines, req, filtered_df, resp>>

----------------------------------------------------------------------------
(* The callbacks *)

\* A dropdown's value: None, or a list of strings (read as a set: the code
\* only tests membership in it and iterates it under any())
None == [none |-> TRUE, vals |-> {}]
List(S) == [none |-> FALSE, vals |-> S]

\* Python's `not v` for None and for a list
Falsy(v) == v.none \/ v.vals = {}

StateSelections == {None} \cup { List(S) : S \in SUBSET {MH, KA} }
CitySelections == {None} \cup { List(S) : S \in SUBSET { <<"A">>, <<"B">> } }
CuisineSelections == {None} \cup { List(S) : S \in SUBSET {Ta, Tb} }
PriceRanges == { <<10, 50>>, <<30, 50>>, <<10, 30>>, <<60, 90>> }

\* frame[frame[c].isin(values)]
WhereIsIn(frame, c, values) ==
    GetItem(frame, Series("bool",
        [i \in 1..Len(frame.rows) |-> frame.rows[i].cells[c].s \in values]))

\* WherePriceBetween with the upper bound excluded
WherePriceBelow(frame, lo, hi) ==
    GetItem(frame, Series("bool",
        [i \in 1..Len(frame.rows) |->
            /\ frame.rows[i].cells["Price"].n >= lo
            /\ frame.rows[i].cells["Price"].n < hi]))

\* frame[(frame['Price'] >= lo) & (frame['Price'] <= hi)]
WherePriceBetween(frame, lo, hi) ==
    GetItem(frame, Series("bool",
        [i \in 1..Len(frame.rows) |->
            /\ frame.rows[i].cells["Price"].n >= lo
            /\ frame.rows[i].cells["Price"].n <= hi]))

\* mask = frame['Food type'].apply(lambda x: any(cuisine in x for cuisine in
\* selected_cuisines)); frame[mask]
WhereAnyCuisine(frame, cuisines) ==
    GetItem(frame, ApplyBool(frame, "Food type",
        [i \in 1..Len(frame.rows) |->
            \E cuisine \in cuisines :
                Contains(frame.rows[i].cells["Food type"].s, cuisine)]))

Options(cities) == [i \in 1..Len(cities) |-> [label |-> cities[i], value |-> cities[i]]]

\* set_cities_options without sorted()
set_cities_options_unsorted(selected_states) ==
    IF Falsy(selected_states) THEN <<>>
    ELSE Options(Unique(StringsOf(
             WhereIsIn(df, "State", selected_states.vals), "City")))

\* lines 114-118
set_cities_options(selected_states) ==
    IF Falsy(selected_states) THEN <<>>
    ELSE Options(Sorted(Unique(StringsOf(
             WhereIsIn(df, "State", selected_states.vals), "City"))))

\* lines 140-141: if selected_states: ...
ByState(frame, selected_states) ==
    IF Falsy(selected_states) THEN frame
    ELSE WhereIsIn(frame, "State", selected_states.vals)

\* lines 142-143: if selected_cities: ...
ByCity(frame, selected_cities) ==
    IF Falsy(selected_cities) THEN frame
    ELSE WhereIsIn(frame, "City", selected_cities.vals)

\* lines 144-146: if selected_cuisines: ...
ByCuisine(frame, selected_cuisines) ==
    IF Falsy(selected_cuisines) THEN frame
    ELSE WhereAnyCuisine(frame, selected_cuisines.vals)

\* FilterFrame without the no-filter case: the price range always applies
FilterFrameAlwaysPrice(selected_states, selected_cities, selected_cuisines, price_range) ==
    ByCuisine(
        ByCity(
            ByState(WherePriceBetween(df, price_range[1], price_range[2]),
                    selected_states),
            selected_cities),
        selected_cuisines)

\* lines 132-146: the frame the figures are made from
FilterFrame(selected_states, selected_cities, selected_cuisines, price_range) ==
    IF Falsy(selected_states) /\ Falsy(selected_cities) /\ Falsy(selected_cuisines)
    THEN df
    ELSE ByCuisine(
             ByCity(
                 ByState(WherePriceBetween(df, price_range[1], price_range[2]),
                         selected_states),
                 selected_cities),
             selected_cuisines)

\* ScatterPoints after drop_duplicates
ScatterPointsDeduplicated(frame) ==
    Unique([i \in 1..Len(frame.rows) |->
        [x          |-> frame.rows[i].cells["Price"].n,
         y          |-> frame.rows[i].cells["Avg ratings"].n,
         hover_name |-> frame.rows[i].cells["Restaurant"]]])

\* px.scatter's points: x, y and hover_name of every row
ScatterPoints(frame) ==
    [i \in 1..Len(frame.rows) |->
        [x          |-> frame.rows[i].cells["Price"].n,
         y          |-> frame.rows[i].cells["Avg ratings"].n,
         hover_name |-> frame.rows[i].cells["Restaurant"]]]

\* lines 150-164: the data of the three figures, or the exception raised on
\* the way: frame['City'] raises KeyError when the frame has no such column
Figures(frame) ==
    IF ~HasColumn(frame, "City")
    THEN [status |-> "raised", error |-> "KeyError: 'City'"]
    ELSE
      [status  |-> "returned",
       error   |-> "",
       bar     |-> NLargest(ValueCounts(StringsOf(frame, "City")), TopN),
       pie     |-> NLargest(ValueCounts(ExplodeStrip(ColumnValues(frame, "Food type"))),
                            TopN),
       scatter |-> ScatterPoints(frame)]

\* Callback 1 runs on a request
SetCitiesOptions(selected_states) ==
    /\ pc = "serving"
    /\ req' = [fn |-> "set_cities_options", selected_states |-> selected_states]
    /\ resp' = [status |-> "returned", error |-> "",
                options |-> set_cities_options(selected_states)]
    /\ pc' = "responding"
    /\ UNCHANGED <<file, reads, stdout, stderr, df, all_cuisines, app, filtered_df>>

\* UpdateGraphs binding the filtered frame to the module-level name df
UpdateGraphsRebindingDf(selected_states, selected_cities, selected_cuisines, price_range) ==
    /\ pc = "serving"
    /\ req' = [fn |-> "update_graphs", selected_states |-> selected_states,
               selected_cities |-> selected_cities,
               selected_cuisines |-> selected_cuisines, price_range |-> price_range]
    /\ filtered_df' = FilterFrame(selected_states, selected_cities,
                                  selected_cuisines, price_range)
    /\ df' = filtered_df'
    /\ resp' = Figures(filtered_df')
    /\ pc' = "responding"
    /\ UNCHANGED <<file, reads, stdout, stderr, all_cuisines, app>>

\* Callback 2 runs on a request
UpdateGraphs(selected_states, selected_cities, selected_cuisines, price_range) ==
    /\ pc = "serving"
    /\ req' = [fn |-> "update_graphs", selected_states |-> selected_states,
               selected_cities |-> selected_cities,
               selected_cuisines |-> selected_cuisines, price_range |-> price_range]
    /\ filtered_df' = FilterFrame(selected_states, selected_cities,
                                  selected_cuisines, price_range)
    /\ resp' = Figures(filtered_df')
    /\ pc' = "responding"
    /\ UNCHANGED <<file, reads, stdout, stderr, df, all_cuisines, app>>

\* The response (or the error) is sent; the callback's locals are gone
Respond ==
    /\ pc = "responding"
    /\ req' = NoReq
    /\ filtered_df' = NoFrame
    /\ resp' = NoResp
    /\ pc' = "serving"
    /\ UNCHANGED <<file, reads, stdout, stderr, df, all_cuisines, app>>

Next ==
    \/ LoadData
    \/ CleanData
    \/ BuildVocabulary
    \/ CreateApp
    \/ \E ss \in StateSelections : SetCitiesOptions(ss)
    \/ \E ss \in StateSelections, sc \in CitySelections,
          su \in CuisineSelections, pr \in PriceRanges : UpdateGraphs(ss, sc, su, pr)
    \/ Respond

Spec == Init /\ [][Next]_vars

----------------------------------------------------------------------------
(* Vocabulary of the properties.  These definitions restate what the       *)
(* specification says in terms of the raw file and of single rows; none of *)
(* them uses the operators the callbacks are built from.                   *)

Serving == pc \in {"serving", "responding"}
InUpdateGraphs == pc = "responding" /\ req.fn = "update_graphs"
InSetCities == pc = "responding" /\ req.fn = "set_cities_options"
Returned == resp.status = "returned"

\* an empty or unset selection
Unselected(v) == v.none \/ Cardinality(v.vals) = 0

\* t is a contiguous part of s
IsSubstring(t, s) ==
    \/ t = <<>>
    \/ \E a \in 1..Len(s) : \E b \in a..Len(s) : SubSeq(s, a, b) = t

\* a comes before b in the order of strings
Precedes(a, b) ==
    \E k \in 1..(Len(b)) :
        /\ k <= Len(a) + 1
        /\ \A j \in 1..(k - 1) : a[j] = b[j]
        /\ (k = Len(a) + 1 \/ Ord(a[k]) < Ord(b[k]))

IndexSet(frame) == { frame.rows[i].index : i \in 1..Len(frame.rows) }

\* the row of the Base Table with index label x
BaseRow(x) == CHOOSE r \in Range(df.rows) : r.index = x

\* the four conditions of the Filter Engine on a row of the Base Table
PassesPrice(r) ==
    req.price_range[1] <= r.cells["Price"].n /\ r.cells["Price"].n <= req.price_range[2]
PassesState(r) ==
    Unselected(req.selected_states) \/ r.cells["State"].s \in req.selected_states.vals
PassesCity(r) ==
    Unselected(req.selected_cities) \/ r.cells["City"].s \in req.selected_cities.vals
PassesCuisine(r) ==
    \/ Unselected(req.selected_cuisines)
    \/ \E c \in req.selected_cuisines.vals : IsSubstring(c, r.cells["Food type"].s)
Passes(r) == PassesPrice(r) /\ PassesState(r) /\ PassesCity(r) /\ PassesCuisine(r)

NoFilter ==
    /\ Unselected(req.selected_states)
    /\ Unselected(req.selected_cities)
    /\ Unselected(req.selected_cuisines)

----------------------------------------------------------------------------
(* C1 *)

\* C1: for a call of update_graphs with at least one non-empty selection, the
\* Filtered View holds exactly the Base Table rows that are within the price
\* range and match the selected states, cities and (by substring of the raw
\* 'Food type') cuisines, each empty selection matching every row: no other
\* row is in it and no such row is missing.
C1_ConjunctiveFilter ==
    (InUpdateGraphs /\ ~NoFilter) =>
        /\ IndexSet(filtered_df) = { r.index : r \in { q \in Range(df.rows) : Passes(q) } }
        /\ \A i \in 1..Len(filtered_df.rows) :
               \A c \in Range(filtered_df.columns) :
                   filtered_df.rows[i].cells[c] = BaseRow(filtered_df.rows[i].index).cells[c]

\* a call with states, cities and cuisines selected that keeps some rows,
\* drops a row for its price, and keeps a row only by a substring match
C1_Witness ==
    /\ InUpdateGraphs
    /\ ~Unselected(req.selected_states)
    /\ ~Unselected(req.selected_cuisines)
    /\ Len(filtered_df.rows) > 0
    /\ \E r \in Range(df.rows) : ~PassesPrice(r) /\ PassesState(r) /\ PassesCuisine(r)
    /\ \E r \in Range(filtered_df.rows) :
           \A c \in req.selected_cuisines.vals :
               c \notin Range(StripEach(Split(r.cells["Food type"].s, Sep)))

----------------------------------------------------------------------------
(* C2 *)

\* C2: when states, cities and cuisines are all empty or unset, the Filtered
\* View is the whole Base Table, whatever the price range.
C2_NoFilterWholeTable ==
    (InUpdateGraphs /\ NoFilter) => filtered_df = df

\* no selection (one unset, one empty) and a price range that excludes every row
C2_Witness ==
    /\ InUpdateGraphs
    /\ req.selected_states.none
    /\ ~req.selected_cities.none /\ req.selected_cities.vals = {}
    /\ Unselected(req.selected_cuisines)
    /\ Len(df.rows) > 1
    /\ \A r \in Range(df.rows) : ~PassesPrice(r)
    /\ Len(filtered_df.rows) = Len(df.rows)

----------------------------------------------------------------------------
(* C3 *)

\* the cities of the Base Table rows whose state is selected
CitiesOfSelectedStates ==
    { r.cells["City"].s :
        r \in { q \in Range(df.rows) : q.cells["State"].s \in req.selected_states.vals } }

\* C3: set_cities_options returns the empty list when no state is selected;
\* otherwise its options are, in strictly ascending order (sorted, no
\* duplicate), exactly the cities of the Base Table rows whose state is
\* selected.  The result is determined by the selected states and the Base
\* Table alone.
C3_CascadeCities ==
    InSetCities =>
        /\ Returned
        /\ Unselected(req.selected_states) => resp.options = <<>>
        /\ ~Unselected(req.selected_states) =>
              /\ { resp.options[i].value : i \in 1..Len(resp.options) }
                     = CitiesOfSelectedStates
              /\ \A i \in 1..Len(resp.options) :
                     resp.options[i].label = resp.options[i].value
              /\ \A i \in 1..(Len(resp.options) - 1) :
                     Precedes(resp.options[i].value, resp.options[i + 1].value)

\* a selected state whose cities first appear in the table in another order
\* than the sorted one, one of them on several rows, while another state's
\* city is left out
C3_Witness ==
    /\ InSetCities
    /\ Len(resp.options) >= 2
    /\ \E i, j, k \in 1..Len(df.rows) :
          /\ i < j /\ j < k
          /\ df.rows[i].cells["City"].s = resp.options[2].value
          /\ df.rows[j].cells["City"].s = resp.options[1].value
          /\ df.rows[k].cells["City"].s = resp.options[2].value
          /\ \A h \in 1..(j - 1) : df.rows[h].cells["City"].s # resp.options[1].value
    /\ \E r \in Range(df.rows) : r.cells["City"].s \notin CitiesOfSelectedStates

----------------------------------------------------------------------------
(* C4 *)

\* the raw field is a number
RawNumeric(s) == IsNumeral(s)
\* the raw field is missing
RawMissing(s) == s \in NaValues

RawRowValid(raw) ==
    /\ RawNumeric(raw["Price"])
    /\ RawNumeric(raw["Avg ratings"])
    /\ ~RawMissing(raw["State"])
    /\ ~RawMissing(raw["City"])
    /\ ~RawMissing(raw["Food type"])

Loaded == file.status = "ok" /\ pc \notin {"read", "clean"}

\* C4: after the load step every row of the Base Table has a numeric price
\* and rating and a non-empty state, city and food type, and every raw row
\* with a non-numeric or missing price or rating or an empty state, city or
\* food type is excluded.
C4_LoadInvariant ==
    Loaded =>
        /\ \A r \in Range(df.rows) :
              /\ r.cells["Price"].kind = "num"
              /\ r.cells["Avg ratings"].kind = "num"
              /\ \A c \in {"State", "City", "Food type"} :
                     r.cells[c].kind = "str" /\ Len(r.cells[c].s) > 0
        /\ \A i \in 1..Len(file.rows) :
              ~RawRowValid(file.rows[i]) => (i - 1) \notin IndexSet(df)

\* a file with a valid row after an invalid one: the valid row is kept under
\* its own index label
C4_Witness ==
    /\ Loaded
    /\ Len(file.rows) = 2
    /\ ~RawRowValid(file.rows[1])
    /\ IndexSet(df) = {1}

----------------------------------------------------------------------------
(* C5 *)

\* C5: once the app is serving, no step changes the Base Table or the
\* Cuisine Vocabulary.
C5_ReadOnlyAfterStartup ==
    [][Serving => (df' = df /\ all_cuisines' = all_cuisines)]_vars

\* update_graphs has run and made a frame that differs from the Base Table
C5_Witness ==
    /\ InUpdateGraphs
    /\ Returned
    /\ Len(filtered_df.rows) > 0
    /\ filtered_df # df
    /\ Len(all_cuisines) > 1

----------------------------------------------------------------------------
(* C6 *)

CitiesIn(frame) == { frame.rows[i].cells["City"].s : i \in 1..Len(frame.rows) }

CityCount(frame, c) ==
    Cardinality({ i \in 1..Len(frame.rows) : frame.rows[i].cells["City"].s = c })

\* the cuisine tokens of a row: the pieces of 'Food type' between separators,
\* trimmed
TokensOf(r) == StripEach(Split(r.cells["Food type"].s, Sep))

TokensIn(frame) == UNION { Range(TokensOf(frame.rows[i])) : i \in 1..Len(frame.rows) }

\* the occurrences of a token in the frame: a row listing it twice counts twice
OccurrencesIn(r, i, tok) ==
    { <<i, j>> : j \in { h \in 1..Len(TokensOf(r)) : TokensOf(r)[h] = tok } }

TokenCount(frame, tok) ==
    Cardinality(UNION { OccurrencesIn(frame.rows[i], i, tok) : i \in 1..Len(frame.rows) })

Keys(top) == { top[i].key : i \in 1..Len(top) }

\* at most TopN entries, counts never increasing, nothing left out that
\* counts more than an entry
IsTopList(top, countOf) ==
    /\ Len(top) <= TopN
    /\ Keys(top) \subseteq DOMAIN countOf
    /\ \A i \in 1..(Len(top) - 1) : top[i].count >= top[i + 1].count
    /\ \A i \in 1..Len(top) : top[i].count = countOf[top[i].key]
    /\ \A k \in (DOMAIN countOf) \ Keys(top) :
           \A i \in 1..Len(top) : countOf[k] <= top[i].count
    /\ ((DOMAIN countOf) \ Keys(top) # {}) => Len(top) = TopN

\* C6: the top-cities and the top-cuisines outputs have at most 10 entries
\* each, ordered by count, non-increasing, and every entry left out counts no
\* more than the smallest count in the output.
C6_TopTen ==
    (InUpdateGraphs /\ Returned) =>
        /\ IsTopList(resp.bar,
                     [c \in CitiesIn(filtered_df) |-> CityCount(filtered_df, c)])
        /\ IsTopList(resp.pie,
                     [k \in TokensIn(filtered_df) |-> TokenCount(filtered_df, k)])

\* more than ten cities and more than ten cuisines, of different counts
C6_Witness ==
    /\ InUpdateGraphs
    /\ Returned
    /\ Cardinality(CitiesIn(filtered_df)) > TopN
    /\ Cardinality(TokensIn(filtered_df)) > TopN
    /\ Len(resp.bar) = TopN
    /\ Len(resp.pie) = TopN
    /\ resp.bar[1].count > resp.bar[TopN].count
    /\ \E c \in CitiesIn(filtered_df) \ Keys(resp.bar) :
           CityCount(filtered_df, c) < resp.bar[TopN].count

----------------------------------------------------------------------------
(* C7 *)

\* the Filter Selection matches no row of the Base Table
MatchesNothing ==
    IF NoFilter THEN Len(df.rows) = 0
    ELSE \A r \in Range(df.rows) : ~Passes(r)

\* C7: when the Filter Selection matches no row, update_graphs returns, and
\* with empty data for each of the three charts.
C7_EmptyResultNoError ==
    (InUpdateGraphs /\ MatchesNothing) =>
        /\ Returned
        /\ resp.bar = <<>>
        /\ resp.pie = <<>>
        /\ resp.scatter = <<>>

----------------------------------------------------------------------------
(* C8 *)

\* C8: when the file cannot be read, the process says so and ends before the
\* app exists: it reads once, serves no callback, and never reads again.
C8_FailedLoadIsFatal ==
    (file.status # "ok" /\ reads > 0) =>
        /\ reads = 1
        /\ pc \in {"exited", "crashed"}
        /\ pc = "exited" => stdout = <<Diagnostic>>
        /\ pc = "crashed" => stderr # <<>>
        /\ ~app.created
        /\ df = NoFrame
        /\ req = NoReq
        /\ resp = NoResp

\* the file is missing: the message is printed and the process has exited
C8_Witness ==
    /\ file.status = "missing"
    /\ pc = "exited"
    /\ reads = 1
    /\ stdout = <<Diagnostic>>

----------------------------------------------------------------------------
(* C9 *)

\* C9: the count of every token in the top-cuisines output is the number of
\* occurrences of the token among the trimmed pieces of the 'Food type' of
\* all rows of the Filtered View, selected or not in the cuisine filter.
C9_CuisineCounts ==
    (InUpdateGraphs /\ Returned) =>
        /\ \A i \in 1..Len(resp.pie) :
               resp.pie[i].count = TokenCount(filtered_df, resp.pie[i].key)
        /\ \A i, j \in 1..Len(resp.pie) : i # j => resp.pie[i].key # resp.pie[j].key
        /\ (Cardinality(TokensIn(filtered_df)) <= TopN)
               => Keys(resp.pie) = TokensIn(filtered_df)

\* one cuisine is selected; a row that lists it lists another one too, which
\* is counted, and a token that needed trimming is counted with its untrimmed
\* occurrences
C9_Witness ==
    /\ InUpdateGraphs
    /\ Returned
    /\ req.selected_cuisines = List({Ta})
    /\ \E i \in 1..Len(resp.pie) : resp.pie[i].key = Tb /\ resp.pie[i].count >= 1
    /\ \E i \in 1..Len(resp.pie) :
          /\ resp.pie[i].key = Ta
          /\ resp.pie[i].count = 2
          /\ \E r \in Range(filtered_df.rows) :
                 Contains(r.cells["Food type"].s, <<" ">> \o Ta)
                 /\ Cardinality(Range(TokensOf(r))) = 2

----------------------------------------------------------------------------
(* C10 *)

\* C10: the rows of the Filtered View are rows of the Base Table in the Base
\* Table's order, none more often than there, and the scatter data is one
\* (price, rating, name) point per row of the Filtered View, in order, equal
\* points kept.
C10_OrderPreserved ==
    InUpdateGraphs =>
        /\ \A i \in 1..(Len(filtered_df.rows) - 1) :
               filtered_df.rows[i].index < filtered_df.rows[i + 1].index
        /\ IndexSet(filtered_df) \subseteq IndexSet(df)
        /\ Returned =>
              /\ Len(resp.scatter) = Len(filtered_df.rows)
              /\ \A i \in 1..Len(filtered_df.rows) :
                    LET r == BaseRow(filtered_df.rows[i].index)
                    IN  /\ resp.scatter[i].x = r.cells["Price"].n
                        /\ resp.scatter[i].y = r.cells["Avg ratings"].n
                        /\ resp.scatter[i].hover_name = r.cells["Restaurant"]

\* a filtered call that drops a row and keeps two rows with equal points
C10_Witness ==
    /\ InUpdateGraphs
    /\ Returned
    /\ ~NoFilter
    /\ Len(filtered_df.rows) < Len(df.rows)
    /\ \E i, j \in 1..Len(resp.scatter) : i < j /\ resp.scatter[i] = resp.scatter[j]

====
